---- MODULE Spec2Model ----
(***************************************************************************)
(* The spot routes of backend/routes/api/spots.js as a state machine.      *)
(*                                                                         *)
(* The store (Spot, Booking, Review, SpotImages tables) is the shared      *)
(* state.  Every route handler is an async function: it runs from one      *)
(* await to the next without interruption, and other requests may run in   *)
(* between.  A step of the model is therefore one store call together with *)
(* the handler code that follows it up to the next store call.  The first  *)
(* step of a handler also holds the middleware that runs before it         *)
(* (validateBooking, validateReview, validateSpot).                        *)
(*                                                                         *)
(* What a handler tells its caller (res.status(..).json(..) or next(err))  *)
(* is recorded in `sent`, the signals of the last step.                    *)
(***************************************************************************)
EXTENDS Integers, Sequences, FiniteSets, TLC

\* ------------------------------------------------------------------ bounds
MaxSpots == 2        \* spots ever created
MaxDate == 4         \* dates are the days 1..MaxDate
MaxBookings == 2     \* bookings ever created
MaxReviews == 2      \* reviews ever created
MaxImages == 1       \* spot images ever created

Users == {1, 2, 3}   \* ids of the authenticated users (req.user.id)
Procs == {1, 2}      \* requests that may be in flight together

\* ---------------------------------------------------- program constants
MinStars == 1
MaxStars == 5
DefaultPage == 1
DefaultSize == 20

SpotIds == 1..MaxSpots
Dates == 1..MaxDate
\* stars as sent in a request body: 0 stands for a missing value
StarInputs == 0..(MaxStars + 1)
\* a body field that is a string: "" stands for a missing value
Names == {"", "a", "b"}
Urls == {"", "u"}
Texts == {"", "nice"}
\* page and size of a list request: 0 stands for a missing value
PageInputs == {0, 1, 2}
SizeInputs == {0, 1}

\* the Users table: the seeded user and two more
UserTable ==
  [u \in Users |->
     [id |-> u,
      firstName |-> IF u = 1 THEN "John" ELSE IF u = 2 THEN "Jane" ELSE "Jim",
      lastName |-> IF u = 1 THEN "Doe" ELSE IF u = 2 THEN "Roe" ELSE "Poe"]]

\* Spot.findByPk gives null for an id with no row
NoSpot == [ownerId |-> 0, name |-> ""]

\* a rating as a response carries it: null, or the number num/den in lowest
\* terms (den = 0 is the Infinity or NaN of a division by zero)
NullRating == [tag |-> "null", num |-> 0, den |-> 1]

RECURSIVE Gcd(_, _)
Gcd(a, b) == IF b = 0 THEN a ELSE Gcd(b, a % b)

\* a division that drops the fraction
QuotientFloor(n, d) ==
  IF d = 0 THEN [tag |-> "num", num |-> IF n = 0 THEN 0 ELSE 1, den |-> 0]
  ELSE [tag |-> "num", num |-> n \div d, den |-> 1]

\* the JavaScript number n / d
Quotient(n, d) ==
  IF d = 0 THEN [tag |-> "num", num |-> IF n = 0 THEN 0 ELSE 1, den |-> 0]
  ELSE [tag |-> "num", num |-> n \div Gcd(n, d), den |-> d \div Gcd(n, d)]

VARIABLES
  spots,       \* Spot table: id -> row, NoSpot where there is none
  nextSpotId,  \* the next primary key of the Spot table
  bookings,    \* Booking table: a set of rows, ids 1..Cardinality
  reviews,     \* Review table: a set of rows, ids 1..Cardinality
  images,      \* SpotImages table: a set of rows, ids 1..Cardinality
  req,         \* per request slot: the handler's arguments, locals and position
  sent         \* the signals (responses, next(err) calls) of the last step

vars == <<spots, nextSpotId, bookings, reviews, images, req, sent>>

\* a request slot with no request in it
Idle ==
  [kind |-> "none", pc |-> "idle", uid |-> 0, spotId |-> 0,
   startDate |-> 0, endDate |-> 0, stars |-> 0, review |-> "",
   url |-> "", preview |-> FALSE, name |-> "", page |-> 0, size |-> 0,
   numReviews |-> 0,
   avg |-> NullRating, found |-> <<>>, nout |-> 0]

\* the k-th signal of request r: via "res" is a response the handler sends,
\* via "next" is a call of next(err), which the error-formatting middleware
\* answers with err.status || 500
Signal(r, k, via, status, msg, body) ==
  [req |-> r, seq |-> k, via |-> via, status |-> status, msg |-> msg,
   body |-> body]

\* the next signal of request r
Sig(r, via, status, msg, body) ==
  Signal(r, r.nout + 1, via, status, msg, body)

InFlight(kind) == {p \in Procs : req[p].kind = kind}

AllIdle == \A p \in Procs : req[p].pc = "idle"

\* the sequence of the elements of a set of rows, by id
RECURSIVE ById(_)
ById(rows) ==
  IF rows = {} THEN <<>>
  ELSE LET last == CHOOSE r \in rows : \A q \in rows : q.id <= r.id
       IN Append(ById(rows \ {last}), last)

Init ==
  /\ spots = [s \in SpotIds |-> NoSpot]
  /\ nextSpotId = 1
  /\ bookings = {}
  /\ reviews = {}
  /\ images = {}
  /\ req = [p \in Procs |-> Idle]
  /\ sent = <<>>

\* ------------------------------------------------------------ POST /
\* validateSpot: every body field must be present
SpotBodyValid(name) == name # ""

CreateSpot(p, u, name) ==
  /\ req[p].pc = "idle"
  /\ nextSpotId <= MaxSpots
  /\ LET r == [Idle EXCEPT !.kind = "createSpot", !.uid = u, !.name = name]
     IN IF ~SpotBodyValid(name)
        THEN /\ sent' = <<Sig(r, "next", 400, "Bad Request", <<>>)>>
             /\ UNCHANGED <<spots, nextSpotId>>
        ELSE LET row == [ownerId |-> u, name |-> name]
             IN /\ spots' = [spots EXCEPT ![nextSpotId] = row]
                /\ nextSpotId' = nextSpotId + 1
                /\ sent' = <<Sig(r, "res", 201, "", <<[id |-> nextSpotId] @@ row>>)>>
  /\ UNCHANGED <<bookings, reviews, images, req>>

\* ------------------------------------------------ POST /:spotId/bookings
\* validateBooking: startDate must be before endDate
BookingBodyValid(s, e) == s < e

\* v BETWEEN lo AND hi
Between(v, lo, hi) == lo <= v /\ v <= hi

\* the conflict query without its spotId condition
BookingConflictsAnySpot(bks, sid, s, e) ==
  {b \in bks : \/ Between(b.startDate, s, e)
               \/ Between(b.endDate, s, e)}

\* the conflict query without its endDate condition
BookingConflictsStartOnly(bks, sid, s, e) ==
  {b \in bks : b.spotId = sid /\ Between(b.startDate, s, e)}

\* the where clause of the conflict query
BookingConflicts(bks, sid, s, e) ==
  {b \in bks : /\ b.spotId = sid
               /\ \/ Between(b.startDate, s, e)
                  \/ Between(b.endDate, s, e)}

\* requireAuth, validateBooking, then Spot.findByPk and the two checks on it
CreateBookingStart(p, u, sid, s, e) ==
  /\ req[p].pc = "idle"
  /\ Cardinality(bookings) + Cardinality(InFlight("createBooking")) < MaxBookings
  /\ LET r == [Idle EXCEPT !.kind = "createBooking", !.uid = u, !.spotId = sid,
                           !.startDate = s, !.endDate = e]
     IN IF ~BookingBodyValid(s, e)
        THEN /\ sent' = <<Sig(r, "next", 400, "Bad Request", <<>>)>>
             /\ UNCHANGED req
        ELSE IF spots[sid] = NoSpot
        THEN \* next(err) does not return: spot.ownerId of null throws a
             \* TypeError, which the catch block hands to next again
             /\ sent' = <<Signal(r, 1, "next", 404, "Spot Image couldn't be found", <<>>),
                          Signal(r, 2, "next", 500, "TypeError", <<>>)>>
             /\ UNCHANGED req
        ELSE IF spots[sid].ownerId = u
        THEN \* next(err) does not return: the handler goes on to the query
             /\ sent' = <<Sig(r, "next", 403, "Spot must not belong to user", <<>>)>>
             /\ req' = [req EXCEPT ![p] = [r EXCEPT !.pc = "findAll", !.nout = 1]]
        ELSE /\ sent' = <<>>
             /\ req' = [req EXCEPT ![p] = [r EXCEPT !.pc = "findAll"]]
  /\ UNCHANGED <<spots, nextSpotId, bookings, reviews, images>>

\* Booking.findAll of the conflicts and the check on its result
CreateBookingFindAll(p) ==
  /\ req[p].kind = "createBooking"
  /\ req[p].pc = "findAll"
  /\ LET r == req[p]
         bookingConflicts == BookingConflicts(bookings, r.spotId, r.startDate, r.endDate)
     IN IF bookingConflicts # {}
        THEN /\ sent' = <<Sig(r, "next", 403,
                              "Sorry, this spot is already booked for the specified dates",
                              <<>>)>>
             /\ req' = [req EXCEPT ![p] = Idle]
        ELSE /\ sent' = <<>>
             /\ req' = [req EXCEPT ![p].pc = "create"]
  /\ UNCHANGED <<spots, nextSpotId, bookings, reviews, images>>

\* Booking.create behind a store that refuses a row in conflict with a
\* persisted one: the insert throws and the catch block calls next
CreateBookingCreateGuarded(p) ==
  /\ req[p].kind = "createBooking"
  /\ req[p].pc = "create"
  /\ LET r == req[p]
         booking == [id |-> Cardinality(bookings) + 1, spotId |-> r.spotId,
                     userId |-> r.uid, startDate |-> r.startDate,
                     endDate |-> r.endDate]
     IN IF BookingConflicts(bookings, r.spotId, r.startDate, r.endDate) # {}
        THEN /\ bookings' = bookings
             /\ sent' = <<Sig(r, "next", 500, "SequelizeUniqueConstraintError", <<>>)>>
        ELSE /\ bookings' = bookings \cup {booking}
             /\ sent' = IF r.nout = 0
                        THEN <<Sig(r, "res", 201, "", <<booking>>)>>
                        ELSE <<Sig(r, "next", 500, "ERR_HTTP_HEADERS_SENT", <<>>)>>
  /\ req' = [req EXCEPT ![p] = Idle]
  /\ UNCHANGED <<spots, nextSpotId, reviews, images>>

\* Booking.create and the response
CreateBookingCreate(p) ==
  /\ req[p].kind = "createBooking"
  /\ req[p].pc = "create"
  /\ LET r == req[p]
         booking == [id |-> Cardinality(bookings) + 1, spotId |-> r.spotId,
                     userId |-> r.uid, startDate |-> r.startDate,
                     endDate |-> r.endDate]
     IN /\ bookings' = bookings \cup {booking}
        /\ sent' = IF r.nout = 0
                   THEN <<Sig(r, "res", 201, "", <<booking>>)>>
                   ELSE \* the response was sent already: res.json throws,
                        \* and the catch block calls next again
                        <<Sig(r, "next", 500, "ERR_HTTP_HEADERS_SENT", <<>>)>>
        /\ req' = [req EXCEPT ![p] = Idle]
  /\ UNCHANGED <<spots, nextSpotId, reviews, images>>

\* ------------------------------------------------- GET /:spotId/bookings
\* the rows a non-owner gets, had the query also selected userId
BookingsBasicWithUserId(bks, sid) ==
  LET rows == ById({b \in bks : b.spotId = sid})
  IN [i \in DOMAIN rows |->
        [spotId |-> rows[i].spotId, userId |-> rows[i].userId,
         startDate |-> rows[i].startDate, endDate |-> rows[i].endDate]]

\* the rows a non-owner gets: attributes spotId, startDate, endDate
BookingsBasic(bks, sid) ==
  LET rows == ById({b \in bks : b.spotId = sid})
  IN [i \in DOMAIN rows |->
        [spotId |-> rows[i].spotId, startDate |-> rows[i].startDate,
         endDate |-> rows[i].endDate]]

\* the rows the owner gets: the booking and its User (id, firstName, lastName)
BookingsWithUser(bks, usrs, sid) ==
  LET rows == ById({b \in bks : b.spotId = sid})
  IN [i \in DOMAIN rows |-> rows[i] @@ [User |-> usrs[rows[i].userId]]]

\* what the handler answers once it knows whether the requester owns the spot
BookingsResponse(isOwner, bks, usrs, sid) ==
  IF isOwner THEN BookingsWithUser(bks, usrs, sid) ELSE BookingsBasic(bks, sid)

\* requireAuth, then Spot.findByPk and the ownership test
GetBookingsStart(p, u, sid) ==
  /\ req[p].pc = "idle"
  /\ LET r == [Idle EXCEPT !.kind = "getBookings", !.uid = u, !.spotId = sid]
     IN IF spots[sid] = NoSpot
        THEN /\ sent' = <<Sig(r, "next", 404, "Spot couldn't be found", <<>>)>>
             /\ UNCHANGED req
        ELSE /\ sent' = <<>>
             /\ req' = [req EXCEPT ![p] =
                          [r EXCEPT !.pc = IF spots[sid].ownerId = u
                                           THEN "findAllOwner" ELSE "findAllBasic"]]
  /\ UNCHANGED <<spots, nextSpotId, bookings, reviews, images>>

\* Booking.findAll and the response
GetBookingsFindAll(p) ==
  /\ req[p].kind = "getBookings"
  /\ req[p].pc \in {"findAllOwner", "findAllBasic"}
  /\ LET r == req[p]
         body == BookingsResponse(r.pc = "findAllOwner", bookings, UserTable, r.spotId)
     IN sent' = <<Sig(r, "res", 200, "", body)>>
  /\ req' = [req EXCEPT ![p] = Idle]
  /\ UNCHANGED <<spots, nextSpotId, bookings, reviews, images>>

\* -------------------------------------------------- POST /:spotId/reviews
\* validateReview: review text present, stars an integer from 1 to 5
ReviewBodyValid(text, stars) ==
  text # "" /\ stars # 0 /\ MinStars <= stars /\ stars <= MaxStars

\* the findOne query without its spotId condition
ExistingReviewAnySpot(rvs, sid, uid) == {rv \in rvs : rv.userId = uid}

\* Review.findOne({ where: { spotId, userId } }): the rows it may return
ExistingReview(rvs, sid, uid) ==
  {rv \in rvs : rv.spotId = sid /\ rv.userId = uid}

\* requireAuth, validateReview, then Spot.findByPk and the two checks on it
CreateReviewStart(p, u, sid, stars, text) ==
  /\ req[p].pc = "idle"
  /\ Cardinality(reviews) + Cardinality(InFlight("createReview")) < MaxReviews
  /\ LET r == [Idle EXCEPT !.kind = "createReview", !.uid = u, !.spotId = sid,
                           !.stars = stars, !.review = text]
     IN IF ~ReviewBodyValid(text, stars)
        THEN /\ sent' = <<Sig(r, "next", 400, "Bad Request", <<>>)>>
             /\ UNCHANGED req
        ELSE IF spots[sid] = NoSpot
        THEN /\ sent' = <<Sig(r, "res", 404, "Spot couldn't be found", <<>>)>>
             /\ UNCHANGED req
        ELSE IF spots[sid].ownerId = u
        THEN /\ sent' = <<Sig(r, "res", 403, "Forbidden: Can not review your own spot", <<>>)>>
             /\ UNCHANGED req
        ELSE /\ sent' = <<>>
             /\ req' = [req EXCEPT ![p] = [r EXCEPT !.pc = "findOne"]]
  /\ UNCHANGED <<spots, nextSpotId, bookings, reviews, images>>

\* Review.findOne and the check on its result
CreateReviewFindOne(p) ==
  /\ req[p].kind = "createReview"
  /\ req[p].pc = "findOne"
  /\ LET r == req[p]
     IN IF ExistingReview(reviews, r.spotId, r.uid) # {}
        THEN /\ sent' = <<Sig(r, "res", 500, "User already has a review for this spot", <<>>)>>
             /\ req' = [req EXCEPT ![p] = Idle]
        ELSE /\ sent' = <<>>
             /\ req' = [req EXCEPT ![p].pc = "create"]
  /\ UNCHANGED <<spots, nextSpotId, bookings, reviews, images>>

\* Review.create and the response
CreateReviewCreate(p) ==
  /\ req[p].kind = "createReview"
  /\ req[p].pc = "create"
  /\ LET r == req[p]
         newReview == [id |-> Cardinality(reviews) + 1, spotId |-> r.spotId,
                       userId |-> r.uid, review |-> r.review, stars |-> r.stars]
     IN /\ reviews' = reviews \cup {newReview}
        /\ sent' = <<Sig(r, "res", 201, "", <<newReview>>)>>
        /\ req' = [req EXCEPT ![p] = Idle]
  /\ UNCHANGED <<spots, nextSpotId, bookings, images>>

\* ---------------------------------------------------------------- GET /
\* reviews.reduce((acc, review) => acc + review.stars, 0)
RECURSIVE TotalStars(_)
TotalStars(rows) ==
  IF rows = <<>> THEN 0 ELSE rows[1].stars + TotalStars(Tail(rows))

\* the rows of the Spot table, by id
SpotRows(tbl) ==
  ById({[id |-> s] @@ tbl[s] : s \in {x \in SpotIds : tbl[x] # NoSpot}})

\* limit and offset applied to the rows of a query
Paginate(rows, limit, offset) ==
  SubSeq(rows, offset + 1,
         IF offset + limit < Len(rows) THEN offset + limit ELSE Len(rows))

\* AVG(stars) ... GROUP BY spotId: the group of spot sid, if it has a row
AvgRatingOf(rvs, sid) ==
  LET rows == ById({rv \in rvs : rv.spotId = sid})
  IN Quotient(TotalStars(rows), Len(rows))

\* avgRatingsMap[spot.id] || null
AvgRatingOrNull(rvs, spotIds, sid) ==
  IF sid \in spotIds /\ \E rv \in rvs : rv.spotId = sid
  THEN LET a == AvgRatingOf(rvs, sid)
       IN IF a.num = 0 \/ a.den = 0 THEN NullRating ELSE a
  ELSE NullRating

\* parseInt(page) || 1, parseInt(size) || 20, then Spot.findAll
ListStart(p, page, size) ==
  /\ req[p].pc = "idle"
  /\ LET pg == IF page = 0 THEN DefaultPage ELSE page
         sz == IF size = 0 THEN DefaultSize ELSE size
         r == [Idle EXCEPT !.kind = "list", !.page = pg, !.size = sz]
         rows == Paginate(SpotRows(spots), sz, (pg - 1) * sz)
     IN req' = [req EXCEPT ![p] = [r EXCEPT !.pc = "avg", !.found = rows]]
  /\ sent' = <<>>
  /\ UNCHANGED <<spots, nextSpotId, bookings, reviews, images>>

\* Review.findAll of the averages and the response
ListAvg(p) ==
  /\ req[p].kind = "list"
  /\ req[p].pc = "avg"
  /\ LET r == req[p]
         spotIds == {r.found[i].id : i \in DOMAIN r.found}
         spotsResults ==
           [i \in DOMAIN r.found |->
              r.found[i] @@
                [avgRating |-> AvgRatingOrNull(reviews, spotIds, r.found[i].id)]]
         body == [Spots |-> spotsResults, page |-> r.page, size |-> r.size,
                  total |-> Len(r.found)]
     IN sent' = <<Sig(r, "res", 200, "", <<body>>)>>
  /\ req' = [req EXCEPT ![p] = Idle]
  /\ UNCHANGED <<spots, nextSpotId, bookings, reviews, images>>

\* --------------------------------------------------------- GET /:spotId
\* Review.count
DetailStart(p, sid) ==
  /\ req[p].pc = "idle"
  /\ LET r == [Idle EXCEPT !.kind = "detail", !.spotId = sid]
         numReviews == Cardinality({rv \in reviews : rv.spotId = sid})
     IN req' = [req EXCEPT ![p] =
                  [r EXCEPT !.pc = "findAll", !.numReviews = numReviews]]
  /\ sent' = <<>>
  /\ UNCHANGED <<spots, nextSpotId, bookings, reviews, images>>

\* Review.findAll of the stars and the average
DetailFindAll(p) ==
  /\ req[p].kind = "detail"
  /\ req[p].pc = "findAll"
  /\ LET r == req[p]
         rows == ById({rv \in reviews : rv.spotId = r.spotId})
         avgStarRating == IF Len(rows) > 0
                          THEN Quotient(TotalStars(rows), r.numReviews)
                          ELSE Quotient(0, 1)
     IN req' = [req EXCEPT ![p] =
                  [r EXCEPT !.pc = "findByPk", !.avg = avgStarRating]]
  /\ sent' = <<>>
  /\ UNCHANGED <<spots, nextSpotId, bookings, reviews, images>>

\* Spot.findByPk with its Owner, and the response
DetailFindByPk(p) ==
  /\ req[p].kind = "detail"
  /\ req[p].pc = "findByPk"
  /\ LET r == req[p]
         preSpot == spots[r.spotId]
     IN IF preSpot = NoSpot
        THEN sent' = <<Sig(r, "next", 404, "Spot couldn't be found", <<>>)>>
        ELSE sent' = <<Sig(r, "res", 200, "",
                           <<[id |-> r.spotId, ownerId |-> preSpot.ownerId,
                              name |-> preSpot.name, numReviews |-> r.numReviews,
                              avgStarRating |-> r.avg,
                              Owner |-> UserTable[preSpot.ownerId]]>>)>>
  /\ req' = [req EXCEPT ![p] = Idle]
  /\ UNCHANGED <<spots, nextSpotId, bookings, reviews, images>>

\* ------------------------------------- PUT, DELETE /:spotId, POST images
\* no ownership check at all
NotOwnerNever(spot, ownerId) == FALSE

\* spot.ownerId !== ownerId, the check of the three owner-only routes
NotOwner(spot, ownerId) == spot.ownerId # ownerId

\* requireAuth, validateSpot, then Spot.findByPk and the two checks on it
EditStart(p, u, sid, name) ==
  /\ req[p].pc = "idle"
  /\ LET r == [Idle EXCEPT !.kind = "edit", !.uid = u, !.spotId = sid,
                           !.name = name]
     IN IF ~SpotBodyValid(name)
        THEN /\ sent' = <<Sig(r, "next", 400, "Bad Request", <<>>)>>
             /\ UNCHANGED req
        ELSE IF spots[sid] = NoSpot
        THEN /\ sent' = <<Sig(r, "res", 404, "Spot couldn't be found", <<>>)>>
             /\ UNCHANGED req
        ELSE IF NotOwner(spots[sid], u)
        THEN /\ sent' = <<Sig(r, "res", 403, "Forbidden", <<>>)>>
             /\ UNCHANGED req
        ELSE /\ sent' = <<>>
             /\ req' = [req EXCEPT ![p] = [r EXCEPT !.pc = "update"]]
  /\ UNCHANGED <<spots, nextSpotId, bookings, reviews, images>>

\* spot.update: the row, if it is still there, gets the body's fields
EditUpdate(p) ==
  /\ req[p].kind = "edit"
  /\ req[p].pc = "update"
  /\ LET r == req[p]
     IN spots' = IF spots[r.spotId] = NoSpot THEN spots
                 ELSE [spots EXCEPT ![r.spotId].name = r.name]
  /\ req' = [req EXCEPT ![p].pc = "save"]
  /\ sent' = <<>>
  /\ UNCHANGED <<nextSpotId, bookings, reviews, images>>

\* spot.save with nothing changed, and the response
EditSave(p) ==
  /\ req[p].kind = "edit"
  /\ req[p].pc = "save"
  /\ LET r == req[p]
     IN sent' = <<Sig(r, "res", 200, "", <<[id |-> r.spotId, name |-> r.name]>>)>>
  /\ req' = [req EXCEPT ![p] = Idle]
  /\ UNCHANGED <<spots, nextSpotId, bookings, reviews, images>>

\* requireAuth, then Spot.findByPk, the two checks, spot.destroy() called
\* without await, and the response
DeleteStart(p, u, sid) ==
  /\ req[p].pc = "idle"
  /\ LET r == [Idle EXCEPT !.kind = "delete", !.uid = u, !.spotId = sid]
     IN IF spots[sid] = NoSpot
        THEN /\ sent' = <<Sig(r, "res", 404, "Spot couldn't be found", <<>>)>>
             /\ UNCHANGED req
        ELSE IF NotOwner(spots[sid], u)
        THEN /\ sent' = <<Sig(r, "res", 403, "Forbidden", <<>>)>>
             /\ UNCHANGED req
        ELSE /\ sent' = <<Sig(r, "res", 200, "Successfully deleted", <<>>)>>
             /\ req' = [req EXCEPT ![p] = [r EXCEPT !.pc = "destroy", !.nout = 1]]
  /\ UNCHANGED <<spots, nextSpotId, bookings, reviews, images>>

\* the DELETE that spot.destroy() issued reaches the store (what the store
\* cascades to the spot's bookings, reviews and images is not in this file)
DeleteDestroy(p) ==
  /\ req[p].kind = "delete"
  /\ req[p].pc = "destroy"
  /\ spots' = [spots EXCEPT ![req[p].spotId] = NoSpot]
  /\ req' = [req EXCEPT ![p] = Idle]
  /\ sent' = <<>>
  /\ UNCHANGED <<nextSpotId, bookings, reviews, images>>

\* requireAuth, the url check, then Spot.findByPk and the two checks on it
ImageStart(p, u, sid, url, preview) ==
  /\ req[p].pc = "idle"
  /\ Cardinality(images) + Cardinality(InFlight("image")) < MaxImages
  /\ LET r == [Idle EXCEPT !.kind = "image", !.uid = u, !.spotId = sid,
                           !.url = url, !.preview = preview]
     IN IF url = ""
        THEN /\ sent' = <<Sig(r, "next", 400, "Validation error", <<>>)>>
             /\ UNCHANGED req
        ELSE IF spots[sid] = NoSpot
        THEN /\ sent' = <<Sig(r, "res", 404, "Spot couldn't be found", <<>>)>>
             /\ UNCHANGED req
        ELSE IF NotOwner(spots[sid], u)
        THEN /\ sent' = <<Sig(r, "res", 403, "Forbidden", <<>>)>>
             /\ UNCHANGED req
        ELSE /\ sent' = <<>>
             /\ req' = [req EXCEPT ![p] = [r EXCEPT !.pc = "create"]]
  /\ UNCHANGED <<spots, nextSpotId, bookings, reviews, images>>

\* SpotImages.create and the response
ImageCreate(p) ==
  /\ req[p].kind = "image"
  /\ req[p].pc = "create"
  /\ LET r == req[p]
         newSpotImage == [id |-> Cardinality(images) + 1, spotId |-> r.spotId,
                          url |-> r.url, preview |-> r.preview]
     IN /\ images' = images \cup {newSpotImage}
        /\ sent' = <<Sig(r, "res", 201, "", <<newSpotImage>>)>>
  /\ req' = [req EXCEPT ![p] = Idle]
  /\ UNCHANGED <<spots, nextSpotId, bookings, reviews>>

\* ----------------------------------------------------------- specifications
\* the steps of the booking routes that follow an await
BookingStep ==
  \/ \E p \in Procs : CreateBookingFindAll(p)
  \/ \E p \in Procs : CreateBookingCreate(p)

\* create-booking requests with well-formed bodies, interleaved at their
\* awaits
NextBooking ==
  \/ \E p \in Procs, u \in Users : CreateSpot(p, u, "a")
  \/ \E p \in Procs, u \in Users, sid \in SpotIds, s \in Dates, e \in Dates :
       BookingBodyValid(s, e) /\ CreateBookingStart(p, u, sid, s, e)
  \/ BookingStep

SpecBooking == Init /\ [][NextBooking]_vars

\* the booking routes, any request body, each request running to completion
\* before the next one starts
NextBookingSeq ==
  \/ \E u \in Users, name \in {"", "a"} : AllIdle /\ CreateSpot(1, u, name)
  \/ \E u \in Users, sid \in SpotIds, s \in Dates, e \in Dates :
       AllIdle /\ CreateBookingStart(1, u, sid, s, e)
  \/ \E u \in Users, sid \in SpotIds : AllIdle /\ GetBookingsStart(1, u, sid)
  \/ GetBookingsFindAll(1)
  \/ BookingStep

SeqBooking == Init /\ [][NextBookingSeq]_vars

\* the steps of the create-review route that follow an await
ReviewStep ==
  \/ \E p \in Procs : CreateReviewFindOne(p)
  \/ \E p \in Procs : CreateReviewCreate(p)

\* the stars of the requests of the interleaved specification
RaceStars == {3, 5}

\* create-review requests with well-formed bodies, interleaved at their awaits
NextReview ==
  \/ \E p \in Procs, u \in Users : CreateSpot(p, u, "a")
  \/ \E p \in Procs, u \in Users, sid \in SpotIds, stars \in RaceStars :
       CreateReviewStart(p, u, sid, stars, "nice")
  \/ ReviewStep

SpecReview == Init /\ [][NextReview]_vars

\* the review and rating routes, any request body, each request running to
\* completion before the next one starts
NextReviewSeq ==
  \/ \E u \in Users, name \in {"", "a"} : AllIdle /\ CreateSpot(1, u, name)
  \/ \E u \in Users, sid \in SpotIds, stars \in StarInputs, text \in Texts :
       AllIdle /\ CreateReviewStart(1, u, sid, stars, text)
  \/ \E page \in PageInputs, size \in SizeInputs : AllIdle /\ ListStart(1, page, size)
  \/ \E sid \in SpotIds : AllIdle /\ DetailStart(1, sid)
  \/ ReviewStep
  \/ ListAvg(1)
  \/ DetailFindAll(1)
  \/ DetailFindByPk(1)

SeqReview == Init /\ [][NextReviewSeq]_vars

\* the steps of the owner-only routes that follow an await
SpotStep ==
  \/ \E p \in Procs : EditUpdate(p)
  \/ \E p \in Procs : EditSave(p)
  \/ \E p \in Procs : DeleteDestroy(p)
  \/ \E p \in Procs : ImageCreate(p)

\* the spot routes, any request body, each request running to completion
\* before the next one starts
NextSpotSeq ==
  \/ \E u \in Users, name \in Names : AllIdle /\ CreateSpot(1, u, name)
  \/ \E u \in Users, sid \in SpotIds, name \in Names :
       AllIdle /\ EditStart(1, u, sid, name)
  \/ \E u \in Users, sid \in SpotIds : AllIdle /\ DeleteStart(1, u, sid)
  \/ \E u \in Users, sid \in SpotIds, url \in Urls, preview \in BOOLEAN :
       AllIdle /\ ImageStart(1, u, sid, url, preview)
  \/ SpotStep

SeqSpot == Init /\ [][NextSpotSeq]_vars

\* every route, any request body, requests interleaved at their awaits
Next ==
  \/ \E p \in Procs, u \in Users, name \in Names : CreateSpot(p, u, name)
  \/ \E p \in Procs, u \in Users, sid \in SpotIds, s \in Dates, e \in Dates :
       CreateBookingStart(p, u, sid, s, e)
  \/ \E p \in Procs, u \in Users, sid \in SpotIds : GetBookingsStart(p, u, sid)
  \/ \E p \in Procs : GetBookingsFindAll(p)
  \/ BookingStep
  \/ \E p \in Procs, u \in Users, sid \in SpotIds, stars \in StarInputs, text \in Texts :
       CreateReviewStart(p, u, sid, stars, text)
  \/ ReviewStep
  \/ \E p \in Procs, page \in PageInputs, size \in SizeInputs : ListStart(p, page, size)
  \/ \E p \in Procs : ListAvg(p)
  \/ \E p \in Procs, sid \in SpotIds : DetailStart(p, sid)
  \/ \E p \in Procs : DetailFindAll(p)
  \/ \E p \in Procs : DetailFindByPk(p)
  \/ \E p \in Procs, u \in Users, sid \in SpotIds, name \in Names :
       EditStart(p, u, sid, name)
  \/ \E p \in Procs, u \in Users, sid \in SpotIds : DeleteStart(p, u, sid)
  \/ \E p \in Procs, u \in Users, sid \in SpotIds, url \in Urls, preview \in BOOLEAN :
       ImageStart(p, u, sid, url, preview)
  \/ SpotStep

Spec == Init /\ [][Next]_vars

\* ------------------------------------------------------------------ claims
\* two ranges share a day, bounds included
Overlap(a, b, c, d) == a <= d /\ c <= b

\* the bookings of spot sid that overlap [s, e]
Overlapping(bks, sid, s, e) ==
  {b \in bks : b.spotId = sid /\ Overlap(b.startDate, b.endDate, s, e)}

\* the signals of the last step that belong to requests of this kind
SentOf(kind) == {i \in DOMAIN sent : sent[i].req.kind = kind}

\* C1: with create-booking requests processed one at a time, no two distinct
\* persisted bookings of the same spot overlap (bounds included).
C1_NoOverlap ==
  \A a \in bookings, b \in bookings :
    (a.id # b.id /\ a.spotId = b.spotId)
      => ~Overlap(a.startDate, a.endDate, b.startDate, b.endDate)

\* C2: a create-booking request by the owner of the spot persists nothing: no
\* persisted booking has the userId of its spot's owner.
C2_NoOwnerBooking ==
  \A b \in bookings :
    spots[b.spotId] # NoSpot => b.userId # spots[b.spotId].ownerId

\* C5: a create-booking request, processed without interleaving, for an
\* existing spot, by a user who is not its owner, with startDate < endDate and
\* a range that overlaps no persisted booking of the spot, is answered 201 and
\* adds exactly the booking (spotId, userId, startDate, endDate) to the store.
C5_Pre(r) ==
  /\ r.kind = "createBooking"
  /\ spots[r.spotId] # NoSpot
  /\ spots[r.spotId].ownerId # r.uid
  /\ r.startDate < r.endDate
  /\ Overlapping(bookings, r.spotId, r.startDate, r.endDate) = {}

C5_Step ==
  /\ \A i \in DOMAIN sent' :
       LET sg == sent'[i]
           r == sg.req
       IN C5_Pre(r) =>
            /\ Len(sent') = 1
            /\ sg.via = "res" /\ sg.status = 201 /\ sg.seq = 1
            /\ \E b \in bookings' \ bookings :
                 /\ bookings' = bookings \cup {b}
                 /\ b.spotId = r.spotId /\ b.userId = r.uid
                 /\ b.startDate = r.startDate /\ b.endDate = r.endDate
                 /\ sg.body = <<b>>
  /\ \A p \in Procs :
       (C5_Pre(req[p]) /\ req'[p] # req[p])
         => \/ req[p].pc = "findAll" /\ req'[p] = [req[p] EXCEPT !.pc = "create"]
               /\ bookings' = bookings
            \/ req[p].pc = "create" /\ Len(sent') = 1 /\ sent'[1].req = req[p]

\* C5: every step keeps to it: a request that meets the preconditions is not
\* rejected, and its create step adds exactly its booking and answers 201
C5_CreateSucceeds == [][C5_Step]_vars

\* C5 witness: a second booking of a spot has just been created and answered 201
C5_Witness ==
  \E i \in SentOf("createBooking") :
    /\ sent[i].status = 201
    /\ \E b \in bookings : b.spotId = sent[i].req.spotId /\ <<b>> # sent[i].body

\* C9, as the spec states it: the request is rejected as a conflict iff its
\* start or its end lies within an existing booking of the spot.
SpecConflict(bks, sid, s, e) ==
  \E b \in bks : /\ b.spotId = sid
                 /\ \/ Between(s, b.startDate, b.endDate)
                    \/ Between(e, b.startDate, b.endDate)

\* C9, as the code decides it: the request is rejected as a conflict iff an
\* existing booking of the spot starts or ends within the proposed range.
CodeConflict(bks, sid, s, e) ==
  \E b \in bks : /\ b.spotId = sid
                 /\ \/ (s <= b.startDate /\ b.startDate <= e)
                    \/ (s <= b.endDate /\ b.endDate <= e)

ConflictMsg == "Sorry, this spot is already booked for the specified dates"

\* the conflict decisions the state shows: a conflict rejection just sent, or
\* a request that has passed the check
C9_Decisions(P(_, _, _, _)) ==
  /\ \A i \in SentOf("createBooking") :
       LET r == sent[i].req
       IN (r.pc = "findAll")
            => ((sent[i].status = 403 /\ sent[i].msg = ConflictMsg)
                  <=> P(bookings, r.spotId, r.startDate, r.endDate))
  /\ \A p \in Procs :
       (req[p].kind = "createBooking" /\ req[p].pc = "create")
         => ~P(bookings, req[p].spotId, req[p].startDate, req[p].endDate)

C10_OneOutcome ==
  /\ \A i \in SentOf("createBooking") : sent[i].seq = 1
  /\ \A p \in Procs :
       (req[p].kind = "createBooking" /\ req[p].pc \in {"findAll", "create"})
         => req[p].nout = 0

\* C7: GET /:spotId/bookings answers the owner with bookings that carry the
\* booker's id, firstName and lastName, and answers anyone else with bookings
\* of exactly spotId, startDate and endDate: the same answer whoever made the
\* bookings and whatever the users are called.
OtherUserTable ==
  [u \in Users |-> [id |-> u, firstName |-> "Finn", lastName |-> "Foe"]]

\* the bookings with their users replaced through f
Rebooked(bks, f) == {[b EXCEPT !.userId = f[b.userId]] : b \in bks}

\* C7: the owner's bookings carry the booker's identity; anyone else's carry
\* spotId, startDate, endDate only, whoever booked and whatever the names
C7_BookingViews ==
  \A i \in SentOf("getBookings") :
    LET sg == sent[i]
        r == sg.req
        mine == ById({b \in bookings : b.spotId = r.spotId})
    IN sg.status = 200 =>
         /\ Len(sg.body) = Len(mine)
         /\ spots[r.spotId].ownerId = r.uid =>
              \A k \in DOMAIN mine :
                /\ sg.body[k].id = mine[k].id
                /\ sg.body[k].User = [id |-> mine[k].userId,
                                      firstName |-> UserTable[mine[k].userId].firstName,
                                      lastName |-> UserTable[mine[k].userId].lastName]
         /\ spots[r.spotId].ownerId # r.uid =>
              /\ \A k \in DOMAIN mine :
                   /\ DOMAIN sg.body[k] = {"spotId", "startDate", "endDate"}
                   /\ sg.body[k].spotId = mine[k].spotId
                   /\ sg.body[k].startDate = mine[k].startDate
                   /\ sg.body[k].endDate = mine[k].endDate
              /\ \A f \in [Users -> Users], usrs \in {UserTable, OtherUserTable} :
                   BookingsResponse(FALSE, Rebooked(bookings, f), usrs, r.spotId)
                     = sg.body

\* C7 witness: a user who does not own the spot has been sent its two
\* bookings, made by two different users
C7_Witness ==
  \E i \in SentOf("getBookings") :
    /\ sent[i].status = 200
    /\ spots[sent[i].req.spotId].ownerId # sent[i].req.uid
    /\ Len(sent[i].body) = 2
    /\ \E a \in bookings, b \in bookings :
         /\ a.spotId = sent[i].req.spotId /\ b.spotId = a.spotId
         /\ a.userId # b.userId

\* C3: whatever the interleaving of create-review requests, at most one
\* persisted review exists per (spotId, userId) pair.
C3_OneReviewPerUser ==
  \A a \in reviews, b \in reviews :
    (a.spotId = b.spotId /\ a.userId = b.userId) => a.id = b.id

\* C4: the create-review handler answers a well-formed request with the first
\* of: spot missing 404, requester owns the spot 403, requester already has a
\* review of the spot (rejected, 500); otherwise it creates the review
\* (spotId, requester, review, stars) and answers 201.  A rejection leaves the
\* reviews unchanged, and no review is by the owner of its spot.
C4_Expected(r) ==
  IF spots[r.spotId] = NoSpot THEN 404
  ELSE IF spots[r.spotId].ownerId = r.uid THEN 403
  ELSE IF \E rv \in reviews : rv.spotId = r.spotId /\ rv.userId = r.uid THEN 500
  ELSE 201

C4_Step ==
  /\ \A i \in DOMAIN sent' :
       LET sg == sent'[i]
           r == sg.req
       IN (r.kind = "createReview" /\ ReviewBodyValid(r.review, r.stars)) =>
            /\ Len(sent') = 1 /\ sg.seq = 1 /\ sg.via = "res"
            /\ sg.status = C4_Expected(r)
            /\ \A p \in Procs : req'[p].pc = "idle"
            /\ IF sg.status = 201
               THEN LET rv == [id |-> Cardinality(reviews) + 1, spotId |-> r.spotId,
                               userId |-> r.uid, review |-> r.review,
                               stars |-> r.stars]
                    IN reviews' = reviews \cup {rv} /\ rv \notin reviews
                       /\ sg.body = <<rv>>
               ELSE reviews' = reviews
  /\ \A rv \in reviews' :
       spots'[rv.spotId] # NoSpot => rv.userId # spots'[rv.spotId].ownerId

\* C4: every step answers a well-formed create-review request by the first
\* failing rule (404, 403, 500) or creates the review and answers 201
C4_RulesInOrder == [][C4_Step]_vars

\* C4 witness: a second review by the same user for the same spot has just
\* been rejected
C4_Witness ==
  \E i \in SentOf("createReview") :
    /\ sent[i].status = 500
    /\ \E rv \in reviews :
         rv.spotId = sent[i].req.spotId /\ rv.userId = sent[i].req.uid

\* C8: for a spot with reviews the list endpoint (avgRating) and the detail
\* endpoint (avgStarRating) report the sum of its stars divided by their
\* number; for a spot without reviews the list reports null, the detail 0.
StarsOf(sid) == {rv \in reviews : rv.spotId = sid}

RECURSIVE WeightedCount(_, _)
WeightedCount(sid, k) ==
  IF k < MinStars THEN 0
  ELSE k * Cardinality({rv \in StarsOf(sid) : rv.stars = k}) + WeightedCount(sid, k - 1)

\* q is the mean of the stars of spot sid
IsMean(q, sid) ==
  /\ q.tag = "num" /\ q.den > 0
  /\ q.num * Cardinality(StarsOf(sid)) = WeightedCount(sid, MaxStars) * q.den

\* C8: avgRating of the list and avgStarRating of the detail are the mean of
\* the spot's stars; without reviews the list reports null and the detail 0
C8_Averages ==
  /\ \A i \in SentOf("list") :
       LET spotsResults == sent[i].body[1].Spots
       IN \A k \in DOMAIN spotsResults :
            LET sid == spotsResults[k].id
            IN IF StarsOf(sid) = {}
               THEN spotsResults[k].avgRating = NullRating
               ELSE IsMean(spotsResults[k].avgRating, sid)
  /\ \A i \in SentOf("detail") :
       sent[i].status = 200 =>
         LET sid == sent[i].req.spotId
             avg == sent[i].body[1].avgStarRating
         IN IF StarsOf(sid) = {}
            THEN avg = [tag |-> "num", num |-> 0, den |-> 1]
            ELSE IsMean(avg, sid)

\* C8 witness: the detail of a spot with stars 3 and 5 reports 4
C8_Witness ==
  \E i \in SentOf("detail") :
    /\ sent[i].status = 200
    /\ {rv.stars : rv \in StarsOf(sent[i].req.spotId)} = {3, 5}
    /\ sent[i].body[1].avgStarRating = [tag |-> "num", num |-> 4, den |-> 1]

\* C8 witness of the list: one spot with stars 4 and 5, one without reviews
C8_ListWitness ==
  \E i \in SentOf("list") :
    LET spotsResults == sent[i].body[1].Spots
    IN /\ Len(spotsResults) = 2
       /\ spotsResults[1].avgRating = [tag |-> "num", num |-> 9, den |-> 2]
       /\ spotsResults[2].avgRating = NullRating

\* C6: on an existing spot, spot edit, spot delete and image attach (with a
\* well-formed body) are carried out iff the requester is the spot's owner;
\* for anyone else each answers 403 Forbidden and leaves the spots and the
\* spot images unchanged.
OwnerOnly == {"edit", "delete", "image"}

C6_WellFormed(r) ==
  /\ r.kind \in OwnerOnly
  /\ r.kind = "edit" => SpotBodyValid(r.name)
  /\ r.kind = "image" => r.url # ""
  /\ spots[r.spotId] # NoSpot

C6_Step ==
  /\ \A i \in DOMAIN sent' :
       LET sg == sent'[i]
           r == sg.req
       IN C6_WellFormed(r) =>
            /\ Len(sent') = 1 /\ sg.seq = 1 /\ sg.via = "res"
            /\ IF spots[r.spotId].ownerId = r.uid
               THEN CASE r.kind = "edit" ->
                           /\ sg.status = 200
                           /\ spots'[r.spotId] = [ownerId |-> r.uid, name |-> r.name]
                      [] r.kind = "delete" ->
                           /\ sg.status = 200
                           /\ \E p \in Procs :
                                req'[p] = [r EXCEPT !.pc = "destroy", !.nout = 1]
                      [] r.kind = "image" ->
                           /\ sg.status = 201
                           /\ \E im \in images' \ images :
                                /\ images' = images \cup {im}
                                /\ im.spotId = r.spotId /\ im.url = r.url
               ELSE /\ sg.status = 403 /\ sg.msg = "Forbidden"
                    /\ spots' = spots /\ images' = images
                    /\ \A p \in Procs : req'[p].pc = "idle"
  /\ \A p \in Procs :
       (req[p].kind \in OwnerOnly /\ (spots' # spots \/ images' # images))
         => /\ spots[req[p].spotId].ownerId = req[p].uid
            /\ req[p].kind = "delete" => spots' = [spots EXCEPT ![req[p].spotId] = NoSpot]

\* C6: every step of edit, delete and image attach on an existing spot acts
\* for the owner and answers anyone else 403 with the store unchanged
C6_OwnerOnly == [][C6_Step]_vars

\* C6 witness: the three routes have each just answered 403 to a user who
\* does not own the existing spot, or carried out the owner's request
C6_WitnessForbidden(kind) ==
  \E i \in SentOf(kind) :
    /\ sent[i].status = 403
    /\ spots[sent[i].req.spotId] # NoSpot
    /\ spots[sent[i].req.spotId].ownerId # sent[i].req.uid

C6_Witness ==
  /\ images # {}
  /\ \E s \in SpotIds : s < nextSpotId /\ spots[s] = NoSpot
  /\ \E s \in SpotIds : spots[s] # NoSpot /\ spots[s].name = "b"
  /\ C6_WitnessForbidden("delete")

\* C11: the conflict check and the insert are separate steps with nothing
\* in between that excludes another request: a request that the owner check
\* has not rejected and that has passed Booking.findAll persists its booking
\* and is answered 201 whatever has been persisted since, and Booking.findAll
\* looks at persisted bookings only, not at requests in flight.
C11_Step ==
  \A p \in Procs :
    LET r == req[p]
    IN (r.kind = "createBooking" /\ r.nout = 0 /\ req'[p] # r) =>
         /\ (r.pc = "findAll"
               /\ BookingConflicts(bookings, r.spotId, r.startDate, r.endDate) = {})
              => req'[p] = [r EXCEPT !.pc = "create"] /\ bookings' = bookings
         /\ r.pc = "create" =>
              /\ \E b \in bookings' \ bookings :
                   /\ bookings' = bookings \cup {b}
                   /\ b.spotId = r.spotId /\ b.userId = r.uid
                   /\ b.startDate = r.startDate /\ b.endDate = r.endDate
                   /\ Len(sent') = 1
                   /\ sent'[1].req = r /\ sent'[1].status = 201
                   /\ sent'[1].body = <<b>>
              /\ req'[p] = Idle

\* C11: every step of an unrejected create-booking request goes from the
\* conflict check to the insert and to 201 without looking at the store again
C11_CheckThenInsert == [][C11_Step]_vars

\* C11 witness: two requests by users who do not own the spot, started on a
\* spot without bookings, have both passed Booking.findAll; both bookings are
\* persisted, the second has just been answered 201, and the second is one
\* the conflict query would have rejected had the first been persisted when
\* it ran: two bookings of one spot overlap.
C11_Witness ==
  \E a \in bookings, b \in bookings :
    /\ bookings = {a, b} /\ a.id = 1 /\ b.id = 2
    /\ a.spotId = b.spotId
    /\ spots[a.spotId] # NoSpot
    /\ a.userId # spots[a.spotId].ownerId /\ b.userId # spots[a.spotId].ownerId
    /\ Overlap(a.startDate, a.endDate, b.startDate, b.endDate)
    /\ BookingConflicts({a}, b.spotId, b.startDate, b.endDate) # {}
    /\ Len(sent) = 1 /\ sent[1].status = 201 /\ sent[1].body = <<b>>

====
